---- MODULE Spec2Model ----
(***************************************************************************)
(* Model of xcode-acknowledgements (src/main.py).                          *)
(*                                                                         *)
(* A Python str is a sequence of one-character strings; None is the        *)
(* sentinel NoneValue, which is not a sequence of characters.  A dict is a *)
(* sequence of key/value records in insertion order.                       *)
(*                                                                         *)
(* Three specifications:                                                   *)
(*   Spec      format_contributors, one loop iteration per step            *)
(*   SpecPkg   package_file_content_to_acknowledgments, one pin per step   *)
(*   SpecMain  main, one statement per step                                *)
(***************************************************************************)
EXTENDS Integers, Sequences, FiniteSets, TLC

VARIABLES
    \* format_contributors
    contributors_list,                  \* the argument
    pc,                                 \* position in format_contributors
    contributor_names_mapped_by_emails, \* dict email -> list of names
    contributors,                       \* one Contributor per email
    merged_contributors,                \* the merge loop's list
    processed,                          \* iterations done in the current loop
    formatted,                          \* the returned list
    \* package_file_content_to_acknowledgments
    package_file_content,               \* the argument: decoded Package.resolved
    packages_licenses,                  \* the argument: dict name -> license text
    pkg_pc,                             \* position in the builder
    pkg_index,                          \* pins consumed so far
    packages,                           \* the list being built
    \* main: its locals hold no value until assigned (<<>>, then <<value>>)
    argv,                               \* sys.argv
    main_pc,                            \* the statement main is at
    arguments,
    packages_directory,
    main_licenses,                      \* main's packages_licenses
    main_file_content,                  \* main's package_file_content
    main_packages,                      \* main's packages
    main_contributors_list,             \* main's contributors_list
    main_contributors,                  \* main's formatted_contributors
    output_file,                        \* Acknowledgements.json: <<>> or <<content>>
    opens,                              \* calls of open(..., "w") that returned
    writes                              \* calls of file.write that returned

contribVars == <<contributors_list, pc, contributor_names_mapped_by_emails,
                 contributors, merged_contributors, processed, formatted>>
pkgVars == <<package_file_content, packages_licenses, pkg_pc, pkg_index, packages>>
mainVars == <<argv, main_pc, arguments, packages_directory, main_licenses,
              main_file_content, main_packages, main_contributors_list,
              main_contributors, output_file, opens, writes>>
vars == <<contribVars, pkgVars, mainVars>>

----------------------------------------------------------------------------
(* Bounds *)

MaxEntries == 3     \* longest contributors_list
MaxPins == 2        \* most pins in a lock file
MaxArgs == 4        \* most command-line arguments after the program name

----------------------------------------------------------------------------
(* Python values *)

NoneValue == <<"None">>

\* The printable ASCII characters in code-point order, from 32 (space);
\* "grave" stands for the grave accent (96), which no modelled string uses.
Printable ==
    <<" ", "!", "\"", "#", "$", "%", "&", "'", "(", ")", "*", "+", ",", "-", ".", "/",
      "0", "1", "2", "3", "4", "5", "6", "7", "8", "9", ":", ";", "<", "=", ">", "?",
      "@", "A", "B", "C", "D", "E", "F", "G", "H", "I", "J", "K", "L", "M", "N", "O",
      "P", "Q", "R", "S", "T", "U", "V", "W", "X", "Y", "Z", "[", "\\", "]", "^", "_",
      "grave", "a", "b", "c", "d", "e", "f", "g", "h", "i", "j", "k", "l", "m", "n", "o",
      "p", "q", "r", "s", "t", "u", "v", "w", "x", "y", "z", "{", "|", "}", "~">>

\* ord(c): the code point of a character.
ord(c) == 31 + (CHOOSE i \in 1..Len(Printable) : Printable[i] = c)

\* str.__lt__: lexicographic by code point, a proper prefix is smaller.
RECURSIVE StrLess(_, _)
StrLess(a, b) ==
    IF b = <<>> THEN FALSE
    ELSE IF a = <<>> THEN TRUE
    ELSE IF a[1] = b[1] THEN StrLess(Tail(a), Tail(b))
    ELSE ord(a[1]) < ord(b[1])

\* "".join(parts)
RECURSIVE Join(_)
Join(parts) == IF parts = <<>> THEN <<>> ELSE Head(parts) \o Join(Tail(parts))

\* s.split(sep) for a one-character separator: every occurrence splits,
\* empty pieces included.
RECURSIVE Split(_, _)
Split(s, sep) ==
    IF \A i \in 1..Len(s) : s[i] # sep THEN <<s>>
    ELSE LET i == CHOOSE k \in 1..Len(s) :
                      s[k] = sep /\ \A j \in 1..(k - 1) : s[j] # sep
         IN  <<SubSeq(s, 1, i - 1)>> \o Split(SubSeq(s, i + 1, Len(s)), sep)

\* s.strip(): the whitespace at both ends removed.
RECURSIVE Strip(_)
Strip(s) ==
    IF s = <<>> THEN s
    ELSE IF s[1] = " " THEN Strip(Tail(s))
    ELSE IF s[Len(s)] = " " THEN Strip(SubSeq(s, 1, Len(s) - 1))
    ELSE s

\* s.replace(ch, "")
Remove(s, ch) == SelectSeq(s, LAMBDA c : c # ch)

\* s.endswith(suffix)
EndsWith(s, suffix) ==
    /\ Len(s) >= Len(suffix)
    /\ SubSeq(s, Len(s) - Len(suffix) + 1, Len(s)) = suffix

----------------------------------------------------------------------------
(* Contributor (dataclass) *)

Contributor(name, email, contributions) ==
    [name |-> name, email |-> email, contributions |-> contributions]

name_components(c) == Split(c.name, " ")

first_name(c) == name_components(c)[1]

has_just_a_single_name(c) == Len(name_components(c)) = 1

----------------------------------------------------------------------------
(* format_contributors *)

kamaal111 == <<"k", "a", "m", "a", "a", "l", "1", "1", "1">>
KamaalFarah == <<"K", "a", "m", "a", "a", "l", " ", "F", "a", "r", "a", "h">>

\* contributor_name of one entry
ParseName(contributor_entry) ==
    LET splitted_contributor_entry == Split(contributor_entry, "<")
        n == Len(splitted_contributor_entry)
    IN  Remove(Remove(Strip(Join(SubSeq(splitted_contributor_entry, 1, n - 1))),
                      "<"), ">")

\* email of one entry
ParseEmail(contributor_entry) ==
    LET splitted_contributor_entry == Split(contributor_entry, "<")
        n == Len(splitted_contributor_entry)
    IN  Remove(Remove(Strip(splitted_contributor_entry[n]), "<"), ">")

\* mapping[email] = mapping.get(email, []) + [contributor_name]
DictAppend(mapping, email, contributor_name) ==
    IF \E i \in 1..Len(mapping) : mapping[i].email = email
    THEN [i \in 1..Len(mapping) |->
             IF mapping[i].email = email
             THEN [mapping[i] EXCEPT !.names = Append(@, contributor_name)]
             ELSE mapping[i]]
    ELSE Append(mapping, [email |-> email, names |-> <<contributor_name>>])

\* One step of the inner loop over contributor_names.
LongerNameStrictMutant(longest_contributor_name, contributor_name) ==
    LET substituted == IF contributor_name = kamaal111 THEN KamaalFarah
                       ELSE contributor_name
    IN  IF Len(substituted) >= Len(longest_contributor_name)
        THEN substituted ELSE longest_contributor_name

LongerName(longest_contributor_name, contributor_name) ==
    LET substituted == IF contributor_name = kamaal111 THEN KamaalFarah
                       ELSE contributor_name
    IN  IF Len(substituted) > Len(longest_contributor_name)
        THEN substituted ELSE longest_contributor_name

\* The inner loop: longest_contributor_name starts as "".
RECURSIVE LongestName(_, _)
LongestName(longest_contributor_name, contributor_names) ==
    IF contributor_names = <<>> THEN longest_contributor_name
    ELSE LongestName(LongerName(longest_contributor_name, Head(contributor_names)),
                     Tail(contributor_names))

\* The Contributor appended for one item of the dict.
GroupContributor(item) ==
    Contributor(LongestName(<<>>, item.names), item.email, Len(item.names))

\* The condition of the inner `if` of the merge loop.
ShouldMergeExactOnlyMutant(contributor, merged_author) ==
    /\ first_name(contributor) = first_name(merged_author)
    /\ contributor.name = merged_author.name

ShouldMerge(contributor, merged_author) ==
    LET first_name_is_the_same == first_name(contributor) = first_name(merged_author)
        name_is_the_same == contributor.name = merged_author.name
        one_of_authors_has_just_a_single_name ==
            /\ \/ has_just_a_single_name(contributor)
               \/ has_just_a_single_name(merged_author)
            /\ Len(name_components(contributor)) # Len(name_components(merged_author))
    IN  first_name_is_the_same
        /\ (one_of_authors_has_just_a_single_name \/ name_is_the_same)

\* The Contributor stored at merged_contributors[index] on a merge.
MergedWith(contributor, merged_author) ==
    LET longest_author_name ==
            IF Len(contributor.name) > Len(merged_author.name)
            THEN contributor.name ELSE merged_author.name
    IN  Contributor(longest_author_name, NoneValue,
                    contributor.contributions + merged_author.contributions)

\* `contributor.first_name in contributor_first_names_names` is false: the
\* else branch appends the contributor.
IsAppended(contributor, merged) ==
    \A i \in 1..Len(merged) : first_name(merged[i]) # first_name(contributor)

\* One iteration of the merge loop: the new merged_contributors.
MergeStepAppendUnmergedMutant(contributor, merged) ==
    IF \E i \in 1..Len(merged) : ShouldMerge(contributor, merged[i])
    THEN [index \in 1..Len(merged) |->
             IF ShouldMerge(contributor, merged[index])
             THEN MergedWith(contributor, merged[index])
             ELSE merged[index]]
    ELSE Append(merged, [contributor EXCEPT !.email = NoneValue])

MergeStep(contributor, merged) ==
    IF ~IsAppended(contributor, merged)
    THEN [index \in 1..Len(merged) |->
             IF ShouldMerge(contributor, merged[index])
             THEN MergedWith(contributor, merged[index])
             ELSE merged[index]]
    ELSE Append(merged, [contributor EXCEPT !.email = NoneValue])

\* sorted(xs, key=name): stable insertion of x into an ascending list.
InsertByName(sorted, x) ==
    LET after == {k \in 1..Len(sorted) : ~StrLess(x.name, sorted[k].name)}
        pos == IF after = {} THEN 0 ELSE CHOOSE k \in after : \A j \in after : j <= k
    IN  SubSeq(sorted, 1, pos) \o <<x>> \o SubSeq(sorted, pos + 1, Len(sorted))

RECURSIVE SortedByNameFrom(_, _)
SortedByNameFrom(sorted, xs) ==
    IF xs = <<>> THEN sorted
    ELSE SortedByNameFrom(InsertByName(sorted, Head(xs)), Tail(xs))

SortedByNameUnsortedMutant(xs) == xs

SortedByName(xs) == SortedByNameFrom(<<>>, xs)

\* sorted(xs, key=contributions, reverse=True): stable, descending.
InsertByContributionsDesc(sorted, x) ==
    LET after == {k \in 1..Len(sorted) : sorted[k].contributions >= x.contributions}
        pos == IF after = {} THEN 0 ELSE CHOOSE k \in after : \A j \in after : j <= k
    IN  SubSeq(sorted, 1, pos) \o <<x>> \o SubSeq(sorted, pos + 1, Len(sorted))

RECURSIVE SortedByContributionsDescFrom(_, _)
SortedByContributionsDescFrom(sorted, xs) ==
    IF xs = <<>> THEN sorted
    ELSE SortedByContributionsDescFrom(InsertByContributionsDesc(sorted, Head(xs)),
                                       Tail(xs))

SortedByContributionsDesc(xs) == SortedByContributionsDescFrom(<<>>, xs)

\* The return expression.
SortedContributors(merged) == SortedByContributionsDesc(SortedByName(merged))

\* The three loops as folds, and the whole function.
RECURSIVE GroupAll(_, _)
GroupAll(mapping, entries) ==
    IF entries = <<>> THEN mapping
    ELSE GroupAll(DictAppend(mapping, ParseEmail(Head(entries)),
                             ParseName(Head(entries))),
                  Tail(entries))

BuildAll(mapping) == [i \in 1..Len(mapping) |-> GroupContributor(mapping[i])]

RECURSIVE MergeAll(_, _)
MergeAll(merged, cs) ==
    IF cs = <<>> THEN merged
    ELSE MergeAll(MergeStep(Head(cs), merged), Tail(cs))

format_contributors(entries) ==
    SortedContributors(MergeAll(<<>>, BuildAll(GroupAll(<<>>, entries))))

----------------------------------------------------------------------------
(* Inputs of format_contributors: lines of `git log --pretty=format:%an <%ae>` *)

John == <<"J", "o", "h", "n">>
JohnSmith == <<"J", "o", "h", "n", " ", "S", "m", "i", "t", "h">>
JaneDoe == <<"J", "a", "n", "e", " ", "D", "o", "e">>
JaneRoe == <<"J", "a", "n", "e", " ", "R", "o", "e">>
alice == <<"a", "l", "i", "c", "e">>
Bob == <<"B", "o", "b">>
KamaalXy == <<"K", "a", "m", "a", "a", "l", " ", "X", "y">>

e1 == <<"j", "@", "e">>
e2 == <<"j", "s", "@", "e">>
e3 == <<"j", "d", "@", "e">>
e4 == <<"j", "r", "@", "e">>
e5 == <<"a", "@", "e">>
e6 == <<"b", "@", "e">>
e7 == <<"k", "@", "e">>
e8 == <<"k", "x", "@", "e">>

\* "%an <%ae>"
Entry(name, email) == name \o <<" ", "<">> \o email \o <<">">>

\* The entries a contributors_list is drawn from: a bare first name and a
\* fuller name, two full names with one first token, two names under one
\* email, names differing in case, the substituted handle, a name holding a
\* "<", and a line without brackets.
EntryPool ==
    { Entry(John, e1), Entry(JohnSmith, e2),
      Entry(JaneDoe, e3), Entry(JaneRoe, e4), Entry(JaneRoe, e3),
      Entry(alice, e5), Entry(Bob, e6),
      Entry(kamaal111, e7), Entry(KamaalXy, e8),
      Entry(<<"J", "o", "<", "h", "n">>, e1),
      Bob }

SeqsUpTo(S, n) == UNION {[1..k -> S] : k \in 0..n}

InitContributors ==
    /\ contributors_list \in SeqsUpTo(EntryPool, MaxEntries)
    /\ pc = IF contributors_list = <<>> THEN "return" ELSE "parse"
    /\ contributor_names_mapped_by_emails = <<>>
    /\ contributors = <<>>
    /\ merged_contributors = <<>>
    /\ processed = 0
    /\ formatted = <<>>

IdleContributors ==
    /\ contributors_list = <<>>
    /\ pc = "idle"
    /\ contributor_names_mapped_by_emails = <<>>
    /\ contributors = <<>>
    /\ merged_contributors = <<>>
    /\ processed = 0
    /\ formatted = <<>>

IdlePackages ==
    /\ package_file_content = <<>>
    /\ packages_licenses = <<>>
    /\ pkg_pc = "idle"
    /\ pkg_index = 0
    /\ packages = <<>>

IdleMain ==
    /\ argv = <<>>
    /\ main_pc = "idle"
    /\ arguments = <<>>
    /\ packages_directory = <<>>
    /\ main_licenses = <<>>
    /\ main_file_content = <<>>
    /\ main_packages = <<>>
    /\ main_contributors_list = <<>>
    /\ main_contributors = <<>>
    /\ output_file = <<>>
    /\ opens = 0
    /\ writes = 0

\* for contributor_entry in contributors_list: ... (one iteration)
ParseEntry ==
    /\ pc = "parse"
    /\ processed < Len(contributors_list)
    /\ LET contributor_entry == contributors_list[processed + 1]
       IN  contributor_names_mapped_by_emails' =
               DictAppend(contributor_names_mapped_by_emails,
                          ParseEmail(contributor_entry), ParseName(contributor_entry))
    /\ IF processed + 1 = Len(contributors_list)
       THEN pc' = "build" /\ processed' = 0
       ELSE pc' = "parse" /\ processed' = processed + 1
    /\ UNCHANGED <<contributors_list, contributors, merged_contributors, formatted>>
    /\ UNCHANGED <<pkgVars, mainVars>>

\* for (email, contributor_names) in ...items(): ... (one iteration)
BuildContributor ==
    /\ pc = "build"
    /\ processed < Len(contributor_names_mapped_by_emails)
    /\ contributors' =
           Append(contributors,
                  GroupContributor(contributor_names_mapped_by_emails[processed + 1]))
    /\ IF processed + 1 = Len(contributor_names_mapped_by_emails)
       THEN pc' = "merge" /\ processed' = 0
       ELSE pc' = "build" /\ processed' = processed + 1
    /\ UNCHANGED <<contributors_list, contributor_names_mapped_by_emails,
                   merged_contributors, formatted>>
    /\ UNCHANGED <<pkgVars, mainVars>>

\* for contributor in contributors: ... (one iteration)
MergeContributor ==
    /\ pc = "merge"
    /\ processed < Len(contributors)
    /\ merged_contributors' = MergeStep(contributors[processed + 1], merged_contributors)
    \* `contributor.email = None` sets the field of the object that
    \* `contributors` holds too
    /\ contributors' =
           IF IsAppended(contributors[processed + 1], merged_contributors)
           THEN [contributors EXCEPT ![processed + 1].email = NoneValue]
           ELSE contributors
    /\ IF processed + 1 = Len(contributors)
       THEN pc' = "return" /\ processed' = 0
       ELSE pc' = "merge" /\ processed' = processed + 1
    /\ UNCHANGED <<contributors_list, contributor_names_mapped_by_emails, formatted>>
    /\ UNCHANGED <<pkgVars, mainVars>>

\* return sorted(sorted(merged_contributors, ...), ..., reverse=True)
ReturnContributors ==
    /\ pc = "return"
    /\ formatted' = SortedContributors(merged_contributors)
    /\ pc' = "done"
    /\ UNCHANGED <<contributors_list, contributor_names_mapped_by_emails,
                   contributors, merged_contributors, processed>>
    /\ UNCHANGED <<pkgVars, mainVars>>

Init == InitContributors /\ IdlePackages /\ IdleMain

Next == ParseEntry \/ BuildContributor \/ MergeContributor \/ ReturnContributors

Spec == Init /\ [][Next]_vars

\* The stepwise run computes the function.
StepsComputeFunction ==
    pc = "done" => formatted = format_contributors(contributors_list)

----------------------------------------------------------------------------
(* Properties of format_contributors *)

RECURSIVE SumContributions(_)
SumContributions(cs) ==
    IF cs = <<>> THEN 0 ELSE Head(cs).contributions + SumContributions(Tail(cs))

\* str.lower() of one character and of a string
LowerChar(c) == IF ord(c) \in 65..90 THEN Printable[ord(c) + 32 - 31] ELSE c
Lower(str) == [i \in 1..Len(str) |-> LowerChar(str[i])]

Reorderings(xs) ==
    {[i \in 1..Len(xs) |-> xs[f[i]]] :
        f \in {g \in [1..Len(xs) -> 1..Len(xs)] :
                  \A a, b \in 1..Len(xs) : a # b => g[a] # g[b]}}

FirstToken(name) == Split(name, " ")[1]
TokenCount(name) == Len(Split(name, " "))

\* C1: the sum of `contributions` over the returned Contributors equals the
\* number of input entries (no entry is dropped, none is counted twice).
C1_CountsPreserved ==
    pc = "done" => SumContributions(formatted) = Len(contributors_list)

\* C2: two entries with different emails and different multi-token names
\* that share their first token are returned as two Contributors, one per
\* name, each with its own count.
C2_SharedFirstTokenKept ==
    (/\ pc = "done"
     /\ Len(contributors_list) = 2
     /\ ParseEmail(contributors_list[1]) # ParseEmail(contributors_list[2])
     /\ ParseName(contributors_list[1]) # ParseName(contributors_list[2])
     /\ TokenCount(ParseName(contributors_list[1])) > 1
     /\ TokenCount(ParseName(contributors_list[2])) > 1
     /\ FirstToken(ParseName(contributors_list[1]))
            = FirstToken(ParseName(contributors_list[2])))
    => /\ Len(formatted) = 2
       /\ \A i \in 1..2 : \E r \in 1..Len(formatted) :
              /\ formatted[r].name = ParseName(contributors_list[i])
              /\ formatted[r].contributions = 1

\* The pairs (bare, fuller) of email groups C3 is about: a single-token name,
\* a longer name with the same first token, and no third group with it.
BareAndFuller(i, j) ==
    /\ i # j
    /\ has_just_a_single_name(contributors[i])
    /\ ~has_just_a_single_name(contributors[j])
    /\ first_name(contributors[i]) = first_name(contributors[j])
    /\ \A k \in 1..Len(contributors) :
           k \notin {i, j} => first_name(contributors[k]) # first_name(contributors[i])

\* C3: a group with a bare single-token name and a group with a fuller name
\* of the same first token, in either order and with no other group of that
\* first token, come back as exactly one Contributor: the longer name, a
\* null email, the sum of the two counts.
C3_BareMergesIntoFuller ==
    pc = "done" =>
        \A i, j \in 1..Len(contributors) :
            BareAndFuller(i, j) =>
                LET ci == contributors[i]
                    cj == contributors[j]
                    longer == IF Len(ci.name) > Len(cj.name) THEN ci.name ELSE cj.name
                    hits == {r \in 1..Len(formatted) :
                                first_name(formatted[r]) = first_name(ci)}
                IN  /\ Cardinality(hits) = 1
                    /\ \A r \in hits :
                           formatted[r] = Contributor(longer, NoneValue,
                                              ci.contributions + cj.contributions)

\* C3 witness: the fuller name comes first, the bare one later, three entries
\* in all.
C3_Witness ==
    /\ pc = "done"
    /\ \E i, j \in 1..Len(contributors) :
           /\ BareAndFuller(i, j)
           /\ j < i
           /\ contributors[i].contributions + contributors[j].contributions = 3
           /\ \E r \in 1..Len(formatted) : formatted[r].contributions = 3

\* C4 as stated: descending by contributions, ties in ascending
\* case-insensitive order of name.
C4_SortedCaseInsensitive ==
    pc = "done" =>
        \A i \in 1..(Len(formatted) - 1) :
            /\ formatted[i].contributions >= formatted[i + 1].contributions
            /\ formatted[i].contributions = formatted[i + 1].contributions
                   => ~StrLess(Lower(formatted[i + 1].name), Lower(formatted[i].name))

\* C4 amended: descending by contributions, ties in ascending order of name
\* by code point (case-sensitive: "Bob" precedes "alice").
C4_SortedByCodePoint ==
    pc = "done" =>
        \A i \in 1..(Len(formatted) - 1) :
            /\ formatted[i].contributions >= formatted[i + 1].contributions
            /\ formatted[i].contributions = formatted[i + 1].contributions
                   => ~StrLess(formatted[i + 1].name, formatted[i].name)

\* C4 witness: a returned tie whose code-point order is the reverse of its
\* case-insensitive order.
C4_Witness ==
    /\ pc = "done"
    /\ \E i \in 1..(Len(formatted) - 1) :
           /\ formatted[i].contributions = formatted[i + 1].contributions
           /\ StrLess(formatted[i].name, formatted[i + 1].name)
           /\ StrLess(Lower(formatted[i + 1].name), Lower(formatted[i].name))

\* The display name of an entry as written, and as the merge loop sees it
\* (the handle replaced).
WrittenName(entry) == ParseName(entry)
SubstitutedName(entry) ==
    IF ParseName(entry) = kamaal111 THEN KamaalFarah ELSE ParseName(entry)

\* The inputs C5 is about: distinct emails, and each first token carried by
\* one entry, or by two of which one is a bare first name and the other a
\* fuller name.  NameOf gives the display name the first tokens are taken of.
C5_Precondition(entries, NameOf(_)) ==
    /\ \A i, j \in 1..Len(entries) :
           i # j => ParseEmail(entries[i]) # ParseEmail(entries[j])
    /\ \A i \in 1..Len(entries) :
           LET same == {j \in 1..Len(entries) :
                           FirstToken(NameOf(entries[j])) = FirstToken(NameOf(entries[i]))}
           IN  /\ Cardinality(same) <= 2
               /\ \A j \in same \ {i} :
                      (TokenCount(NameOf(entries[i])) = 1)
                          # (TokenCount(NameOf(entries[j])) = 1)

EntriesOf(email) ==
    {j \in 1..Len(contributors_list) : ParseEmail(contributors_list[j]) = email}

\* The positions where an email occurs for the first time.
FirstOccurrences ==
    {i \in 1..Len(contributors_list) :
        \A j \in 1..(i - 1) :
            ParseEmail(contributors_list[j]) # ParseEmail(contributors_list[i])}

\* C9: when the merge loop starts, `contributors` holds one Contributor per
\* distinct parsed email in order of first occurrence; its count is the
\* number of entries with that email and its name is the longest display
\* name of those entries (handle replaced), the first one on a tie.
C9_OneContributorPerEmail ==
    (pc = "merge" /\ processed = 0) =>
        /\ Len(contributors) = Cardinality(FirstOccurrences)
        /\ \A g \in 1..Len(contributors) :
               LET i == CHOOSE k \in FirstOccurrences :
                            Cardinality({m \in FirstOccurrences : m < k}) = g - 1
                   email == ParseEmail(contributors_list[i])
                   N(j) == SubstitutedName(contributors_list[j])
               IN  /\ contributors[g].email = email
                   /\ contributors[g].contributions = Cardinality(EntriesOf(email))
                   /\ \E j \in EntriesOf(email) :
                          /\ contributors[g].name = N(j)
                          /\ \A k \in EntriesOf(email) : Len(N(k)) <= Len(N(j))
                          /\ \A k \in EntriesOf(email) : k < j => Len(N(k)) < Len(N(j))

\* C9 witness: an email with two different names of one length, and a second
\* email whose name is the replaced handle.
C9_Witness ==
    /\ pc = "merge" /\ processed = 0
    /\ \E j, k \in 1..Len(contributors_list) :
           /\ j < k
           /\ ParseEmail(contributors_list[j]) = ParseEmail(contributors_list[k])
           /\ ParseName(contributors_list[j]) # ParseName(contributors_list[k])
           /\ Len(ParseName(contributors_list[j])) = Len(ParseName(contributors_list[k]))
    /\ \E g \in 1..Len(contributors) :
           contributors[g].name = KamaalFarah /\ contributors[g].contributions = 1

\* The number of input entries the merge loop has consumed: the counts of the
\* Contributors processed so far.
EntriesMerged(done) == SumContributions(SubSeq(contributors, 1, done))

\* C10: each iteration of the merge loop leaves merged_contributors without
\* two entries of one first token, changes at most one existing entry, and
\* keeps the sum of its counts at or below the number of entries consumed.
C10_MergeLoopInvariant ==
    [][pc = "merge" =>
          /\ \A a, b \in 1..Len(merged_contributors') :
                 a # b => first_name(merged_contributors'[a])
                              # first_name(merged_contributors'[b])
          /\ Cardinality({i \in 1..Len(merged_contributors) :
                             merged_contributors'[i] # merged_contributors[i]}) <= 1
          /\ SumContributions(merged_contributors') <= EntriesMerged(processed + 1)
      ]_vars

\* C10 witness: the loop has ended with two entries; one of them took a
\* merge and one Contributor was dropped.
C10_Witness ==
    /\ pc = "return"
    /\ Len(merged_contributors) = 2
    /\ \E i \in 1..2 : merged_contributors[i].contributions = 2
    /\ Len(contributors) = 3

----------------------------------------------------------------------------
(* package_file_content_to_acknowledgments *)

AcknowledgementPackage(name, url, author, license) ==
    [name |-> name, url |-> url, author |-> author, license |-> license]

DotGit == <<".", "g", "i", "t">>

\* if url.endswith(".git"): url = url[:-4]
TrimGit(url) == IF EndsWith(url, DotGit) THEN SubSeq(url, 1, Len(url) - 4) ELSE url

\* xs[-k] of a list: <<>> stands for the IndexError of a missing element.
FromEnd(xs, k) == IF Len(xs) >= k THEN <<xs[Len(xs) - k + 1]>> ELSE <<>>

\* packages_licenses.get(package_name)
DictGet(dict, key) ==
    IF \E i \in 1..Len(dict) : dict[i].key = key
    THEN dict[CHOOSE i \in 1..Len(dict) : dict[i].key = key].value
    ELSE NoneValue

\* `package_object := package_file_content.get("object")` is truthy
HasObject(content) == content.object # <<>>

\* The pins the taken branch iterates over.
PinsOf(content) == IF HasObject(content) THEN content.object[1].pins ELSE content.pins[1]

\* The body of the loop over a legacy pin: <<the package appended>>, or <<>>
\* when url.split("/")[-2] raises IndexError.
LegacyAcknowledgementLastSegmentMutant(pin, licenses) ==
    LET url == TrimGit(pin.repositoryURL)
        author == FromEnd(Split(url, "/"), 1)
    IN  <<AcknowledgementPackage(pin.package, url, author[1],
                                 DictGet(licenses, pin.package))>>

LegacyAcknowledgement(pin, licenses) ==
    LET package_name == pin.package
        url == TrimGit(pin.repositoryURL)
        author == FromEnd(Split(url, "/"), 2)
    IN  IF author = <<>> THEN <<>>
        ELSE <<AcknowledgementPackage(package_name, url, author[1],
                                      DictGet(licenses, package_name))>>

\* The body of the loop over a current pin.
CurrentAcknowledgement(pin, licenses) ==
    LET url == TrimGit(pin.location)
        url_split_by_separator == Split(url, "/")
        package_name == FromEnd(url_split_by_separator, 1)
        author == FromEnd(url_split_by_separator, 2)
    IN  IF author = <<>> THEN <<>>
        ELSE <<AcknowledgementPackage(package_name[1], url, author[1],
                                      DictGet(licenses, package_name[1]))>>

\* The whole function as a fold: whether it raises IndexError, and the list
\* it returns otherwise.
RECURSIVE PackagesFrom(_, _, _, _)
PackagesFrom(acc, pins, legacy, licenses) ==
    IF pins = <<>> THEN [raises |-> FALSE, packages |-> acc]
    ELSE LET acknowledgement == IF legacy THEN LegacyAcknowledgement(Head(pins), licenses)
                                ELSE CurrentAcknowledgement(Head(pins), licenses)
         IN  IF acknowledgement = <<>> THEN [raises |-> TRUE, packages |-> <<>>]
             ELSE PackagesFrom(acc \o acknowledgement, Tail(pins), legacy, licenses)

package_file_content_to_acknowledgments(content, licenses) ==
    PackagesFrom(<<>>, PinsOf(content), HasObject(content), licenses)

(* Inputs: decoded lock files of both shapes and license mappings *)

Foo == <<"F", "o", "o">>
Bar == <<"B", "a", "r">>
FooGit == <<"F", "o", "o", ".", "g", "i", "t">>
MIT == <<"M", "I", "T">>
BSD == <<"B", "S", "D">>
UrlFoo == <<"h", "t", "t", "p", "s", ":", "/", "/", "h", ".", "i", "o", "/", "a", "c", "m", "e", "/", "F", "o", "o", ".", "g", "i", "t">>
UrlBar == <<"h", "t", "t", "p", "s", ":", "/", "/", "h", ".", "i", "o", "/", "a", "c", "m", "e", "/", "B", "a", "r">>
UrlTwice == <<"h", "t", "t", "p", "s", ":", "/", "/", "h", ".", "i", "o", "/", "o", "r", "g", "/", "F", "o", "o", ".", "g", "i", "t", ".", "g", "i", "t">>
UrlTwoSegments == <<"a", "c", "m", "e", "/", "F", "o", "o">>
UrlOneSegment == <<"F", "o", "o", ".", "g", "i", "t">>

Urls == {UrlFoo, UrlBar, UrlTwice, UrlTwoSegments, UrlOneSegment}

LegacyPins == {[package |-> n, repositoryURL |-> u] : n \in {Foo, Bar}, u \in Urls}
CurrentPins == {[location |-> u] : u \in Urls}

\* {"object": {"pins": [...]}} and {"pins": [...]}; a key that is absent or
\* null is <<>>.
LegacyContents == {[object |-> <<[pins |-> ps]>>, pins |-> <<>>] :
                      ps \in SeqsUpTo(LegacyPins, MaxPins)}
CurrentContents == {[object |-> <<>>, pins |-> <<ps>>] :
                       ps \in SeqsUpTo(CurrentPins, MaxPins)}

LicenseMappings ==
    { <<>>,
      <<[key |-> Foo, value |-> MIT]>>,
      <<[key |-> FooGit, value |-> BSD], [key |-> Foo, value |-> MIT]>> }

InitPackages ==
    /\ package_file_content \in LegacyContents \cup CurrentContents
    /\ packages_licenses \in LicenseMappings
    /\ pkg_pc = "pins"
    /\ pkg_index = 0
    /\ packages = <<>>

\* if package_object := ...: for pin in package_object["pins"]: ... (one iteration)
BuildLegacyPin ==
    /\ pkg_pc = "pins"
    /\ HasObject(package_file_content)
    /\ pkg_index < Len(PinsOf(package_file_content))
    /\ LET acknowledgement ==
               LegacyAcknowledgement(PinsOf(package_file_content)[pkg_index + 1],
                                     packages_licenses)
       IN  IF acknowledgement = <<>>
           THEN pkg_pc' = "IndexError" /\ UNCHANGED <<packages, pkg_index>>
           ELSE /\ packages' = packages \o acknowledgement
                /\ pkg_index' = pkg_index + 1
                /\ pkg_pc' = "pins"
    /\ UNCHANGED <<package_file_content, packages_licenses>>
    /\ UNCHANGED <<contribVars, mainVars>>

\* else: for pin in package_file_content["pins"]: ... (one iteration)
BuildCurrentPin ==
    /\ pkg_pc = "pins"
    /\ ~HasObject(package_file_content)
    /\ pkg_index < Len(PinsOf(package_file_content))
    /\ LET acknowledgement ==
               CurrentAcknowledgement(PinsOf(package_file_content)[pkg_index + 1],
                                      packages_licenses)
       IN  IF acknowledgement = <<>>
           THEN pkg_pc' = "IndexError" /\ UNCHANGED <<packages, pkg_index>>
           ELSE /\ packages' = packages \o acknowledgement
                /\ pkg_index' = pkg_index + 1
                /\ pkg_pc' = "pins"
    /\ UNCHANGED <<package_file_content, packages_licenses>>
    /\ UNCHANGED <<contribVars, mainVars>>

\* return packages
ReturnPackages ==
    /\ pkg_pc = "pins"
    /\ pkg_index = Len(PinsOf(package_file_content))
    /\ pkg_pc' = "done"
    /\ UNCHANGED <<package_file_content, packages_licenses, pkg_index, packages>>
    /\ UNCHANGED <<contribVars, mainVars>>

InitPkg == IdleContributors /\ InitPackages /\ IdleMain

NextPkg == BuildLegacyPin \/ BuildCurrentPin \/ ReturnPackages

SpecPkg == InitPkg /\ [][NextPkg]_vars

\* The stepwise run computes the function.
PkgStepsComputeFunction ==
    LET outcome == package_file_content_to_acknowledgments(package_file_content,
                                                           packages_licenses)
    IN  /\ pkg_pc = "done" => ~outcome.raises /\ outcome.packages = packages
        /\ pkg_pc = "IndexError" => outcome.raises

----------------------------------------------------------------------------
(* Properties of package_file_content_to_acknowledgments *)

\* The url a pin carries, in either shape.
PinUrl(pin) == IF HasObject(package_file_content) THEN pin.repositoryURL ELSE pin.location

SlashesOf(url) == {k \in 1..Len(url) : url[k] = "/"}
Greatest(S) == CHOOSE k \in S : \A j \in S : j <= k
LastSlash(url) == Greatest(SlashesOf(url))
PreviousSlash(url) ==
    IF SlashesOf(url) = {LastSlash(url)} THEN 0
    ELSE Greatest(SlashesOf(url) \ {LastSlash(url)})

\* C6 for one pin and the package built of it.
C6_PackageOfPin(pin, a) ==
    /\ IF EndsWith(PinUrl(pin), DotGit) THEN a.url \o DotGit = PinUrl(pin)
       ELSE a.url = PinUrl(pin)
    /\ SlashesOf(a.url) # {}
    /\ a.author = SubSeq(a.url, PreviousSlash(a.url) + 1, LastSlash(a.url) - 1)
    /\ a.name = IF HasObject(package_file_content) THEN pin.package
                ELSE SubSeq(a.url, LastSlash(a.url) + 1, Len(a.url))
    /\ \/ \E k \in 1..Len(packages_licenses) :
              packages_licenses[k].key = a.name /\ a.license = packages_licenses[k].value
       \/ /\ \A k \in 1..Len(packages_licenses) : packages_licenses[k].key # a.name
          /\ a.license = NoneValue

\* C6: the function returns one package per pin, in pin order, in both
\* shapes: the url without one trailing ".git", the author the second-to-last
\* segment of that url, the name the `package` field or the last segment, the
\* license the mapping's value for that name or null.  It returns whenever
\* every url has a second-to-last segment.
C6_OnePackagePerPin ==
    /\ pkg_pc = "done" =>
           /\ Len(packages) = Len(PinsOf(package_file_content))
           /\ \A i \in 1..Len(packages) :
                  C6_PackageOfPin(PinsOf(package_file_content)[i], packages[i])
    /\ pkg_pc = "IndexError" =>
           SlashesOf(TrimGit(PinUrl(PinsOf(package_file_content)[pkg_index + 1]))) = {}

\* C6 witness: two pins of the current shape; the first url ends in ".git"
\* twice and its package finds a license, the second has none.
C6_Witness ==
    /\ pkg_pc = "done"
    /\ ~HasObject(package_file_content)
    /\ Len(packages) = 2
    /\ PinUrl(PinsOf(package_file_content)[1]) = UrlTwice
    /\ packages[1].license = BSD
    /\ packages[2].license = NoneValue

\* C7: in the legacy shape a pin whose url has fewer than two segments gives
\* a package with a null author, and the function does not fail.
C7_LegacyShortUrlNullAuthor ==
    (pkg_pc \in {"done", "IndexError"} /\ HasObject(package_file_content)) =>
        /\ pkg_pc = "done"
        /\ \A i \in 1..Len(packages) :
               Len(Split(TrimGit(PinUrl(PinsOf(package_file_content)[i])), "/")) < 2
                   => packages[i].author = NoneValue

----------------------------------------------------------------------------
(* parse_arguments *)

\* get_next_value() called in iteration `index` (0-based, over sys.argv[1:]):
\* it raises IndexError, returns None (the guard fails) or returns
\* sys.argv[index + 2], which is argv[index + 3] here.
get_next_value(args, index) ==
    IF index + 1 < Len(args)
    THEN (IF index + 3 <= Len(args)
          THEN [raises |-> FALSE, none |-> FALSE, value |-> args[index + 3]]
          ELSE [raises |-> TRUE, none |-> FALSE, value |-> ""])
    ELSE [raises |-> FALSE, none |-> TRUE, value |-> ""]

\* `x := get_next_value()` is truthy: neither None nor "".
Truthy(returned) == ~returned.none /\ returned.value # ""

\* The loop from iteration `index` on, then the two checks: the exception
\* raised ("" when none) and the dict returned (an absent key is <<>>).
RECURSIVE ParseArgumentsFrom(_, _, _, _)
ParseArgumentsFrom(args, index, skip_next_value, parsed) ==
    IF index > Len(args) - 2
    THEN (IF parsed.scheme = <<>> \/ parsed.output = <<>>
          THEN [raises |-> "Exception", arguments |-> parsed]
          ELSE [raises |-> "", arguments |-> parsed])
    ELSE IF skip_next_value
    THEN ParseArgumentsFrom(args, index + 1, FALSE, parsed)
    ELSE LET arg == args[index + 2]
             returned == get_next_value(args, index)
         IN  IF arg \notin {"--scheme", "--output"}
             THEN ParseArgumentsFrom(args, index + 1, FALSE, parsed)
             ELSE IF returned.raises
             THEN [raises |-> "IndexError", arguments |-> parsed]
             ELSE IF returned.none
             THEN ParseArgumentsFrom(args, index + 1, FALSE, parsed)
             ELSE IF ~Truthy(returned)
             THEN ParseArgumentsFrom(args, index + 1, TRUE, parsed)
             ELSE IF arg = "--scheme"
             THEN ParseArgumentsFrom(args, index + 1, TRUE,
                                     [parsed EXCEPT !.scheme = <<returned.value>>])
             ELSE ParseArgumentsFrom(args, index + 1, TRUE,
                                     [parsed EXCEPT !.output = <<returned.value>>])

parse_arguments(args) ==
    ParseArgumentsFrom(args, 0, FALSE, [scheme |-> <<>>, output |-> <<>>])

----------------------------------------------------------------------------
(* main *)

\* The statements of main in program order.
Statements ==
    <<"parse_arguments", "get_packages_directory", "get_packages_licenses",
      "decode_package_file", "package_file_content_to_acknowledgments", "git_log",
      "format_contributors", "open", "write", "print", "done">>

StatementsOpenFirst ==
    <<"parse_arguments", "open", "get_packages_directory", "get_packages_licenses",
      "decode_package_file", "package_file_content_to_acknowledgments", "git_log",
      "format_contributors", "write", "print", "done">>

\* The statement that follows one that completed.
NextStatementOpenFirstMutant(statement) ==
    StatementsOpenFirst[1 + CHOOSE i \in 1..Len(StatementsOpenFirst) :
                                StatementsOpenFirst[i] = statement]

NextStatement(statement) ==
    Statements[1 + CHOOSE i \in 1..Len(Statements) : Statements[i] = statement]

\* What Acknowledgements.json holds: what was there before the run, nothing
\* (just opened for writing), or the document.
FileContent(kind, pkgs, people) == [kind |-> kind, packages |-> pkgs, contributors |-> people]
OldFile == FileContent("old", <<>>, <<>>)
EmptyFile == FileContent("empty", <<>>, <<>>)

\* acknowledgements.to_json(indent=2)
to_json(pkgs, people) == FileContent("json", pkgs, people)

(* Inputs of main: the command line and what the environment returns *)

ArgumentWords == {"--scheme", "--output", "App", "out", ""}

CommandLines == {<<"main.py">> \o words : words \in SeqsUpTo(ArgumentWords, MaxArgs)}

\* Decoded lock files: a legacy one, a current one, and a current one whose
\* url has a single segment.
MainContents ==
    { [object |-> <<[pins |-> <<[package |-> Foo, repositoryURL |-> UrlFoo]>>]>>,
       pins |-> <<>>],
      [object |-> <<>>, pins |-> <<<<[location |-> UrlBar]>>>>],
      [object |-> <<>>, pins |-> <<<<[location |-> UrlOneSegment]>>>>] }

\* Outputs of `git log`.
MainContributorLists ==
    { <<>>, <<Entry(John, e1), Entry(JohnSmith, e2), Entry(Bob, e6)>> }

InitMainLocals ==
    /\ argv \in CommandLines
    /\ main_pc = "parse_arguments"
    /\ arguments = <<>>
    /\ packages_directory = <<>>
    /\ main_licenses = <<>>
    /\ main_file_content = <<>>
    /\ main_packages = <<>>
    /\ main_contributors_list = <<>>
    /\ main_contributors = <<>>
    /\ output_file \in {<<>>, <<OldFile>>}
    /\ opens = 0
    /\ writes = 0

\* A statement raised: the exception leaves main.
Abort(unchanged) ==
    /\ main_pc' = "aborted"
    /\ UNCHANGED unchanged

\* arguments = parse_arguments()
CallParseArguments ==
    /\ main_pc = "parse_arguments"
    /\ LET outcome == parse_arguments(argv)
       IN  IF outcome.raises # ""
           THEN Abort(arguments)
           ELSE /\ arguments' = <<outcome.arguments>>
                /\ main_pc' = NextStatement(main_pc)
    /\ UNCHANGED <<argv, packages_directory, main_licenses, main_file_content,
                   main_packages, main_contributors_list, main_contributors,
                   output_file, opens, writes>>
    /\ UNCHANGED <<contribVars, pkgVars>>

\* packages_directory = get_packages_directory(scheme=arguments["scheme"]):
\* raises when no project or no BUILD_DIR line is found.
CallGetPackagesDirectory ==
    /\ main_pc = "get_packages_directory"
    /\ \/ Abort(packages_directory)
       \/ /\ packages_directory' = <<"SourcePackages/checkouts">>
          /\ main_pc' = NextStatement(main_pc)
    /\ UNCHANGED <<argv, arguments, main_licenses, main_file_content,
                   main_packages, main_contributors_list, main_contributors,
                   output_file, opens, writes>>
    /\ UNCHANGED <<contribVars, pkgVars>>

\* packages_licenses = get_packages_licenses(...): raises when a LICENSE
\* cannot be read.
CallGetPackagesLicenses ==
    /\ main_pc = "get_packages_licenses"
    /\ \/ Abort(main_licenses)
       \/ /\ \E licenses \in LicenseMappings : main_licenses' = <<licenses>>
          /\ main_pc' = NextStatement(main_pc)
    /\ UNCHANGED <<argv, arguments, packages_directory, main_file_content,
                   main_packages, main_contributors_list, main_contributors,
                   output_file, opens, writes>>
    /\ UNCHANGED <<contribVars, pkgVars>>

\* package_file_content = decode_package_file(): raises when no workspace or
\* no readable Package.resolved is found.
CallDecodePackageFile ==
    /\ main_pc = "decode_package_file"
    /\ \/ Abort(main_file_content)
       \/ /\ \E content \in MainContents : main_file_content' = <<content>>
          /\ main_pc' = NextStatement(main_pc)
    /\ UNCHANGED <<argv, arguments, packages_directory, main_licenses,
                   main_packages, main_contributors_list, main_contributors,
                   output_file, opens, writes>>
    /\ UNCHANGED <<contribVars, pkgVars>>

\* packages = package_file_content_to_acknowledgments(...)
CallPackageFileContentToAcknowledgments ==
    /\ main_pc = "package_file_content_to_acknowledgments"
    /\ LET outcome == package_file_content_to_acknowledgments(main_file_content[1],
                                                              main_licenses[1])
       IN  IF outcome.raises
           THEN Abort(main_packages)
           ELSE /\ main_packages' = <<outcome.packages>>
                /\ main_pc' = NextStatement(main_pc)
    /\ UNCHANGED <<argv, arguments, packages_directory, main_licenses,
                   main_file_content, main_contributors_list, main_contributors,
                   output_file, opens, writes>>
    /\ UNCHANGED <<contribVars, pkgVars>>

\* contributors_list = subprocess.getoutput(...).splitlines()
CallGitLog ==
    /\ main_pc = "git_log"
    /\ \E lines \in MainContributorLists : main_contributors_list' = <<lines>>
    /\ main_pc' = NextStatement(main_pc)
    /\ UNCHANGED <<argv, arguments, packages_directory, main_licenses,
                   main_file_content, main_packages, main_contributors,
                   output_file, opens, writes>>
    /\ UNCHANGED <<contribVars, pkgVars>>

\* formatted_contributors = format_contributors(...), then the
\* Acknowledgements object
CallFormatContributors ==
    /\ main_pc = "format_contributors"
    /\ main_contributors' = <<format_contributors(main_contributors_list[1])>>
    /\ main_pc' = NextStatement(main_pc)
    /\ UNCHANGED <<argv, arguments, packages_directory, main_licenses,
                   main_file_content, main_packages, main_contributors_list,
                   output_file, opens, writes>>
    /\ UNCHANGED <<contribVars, pkgVars>>

\* with open(os.path.join(arguments["output"], "Acknowledgements.json"), "w"):
\* the file is created or truncated, or open raises and nothing changes.
OpenOutputFile ==
    /\ main_pc = "open"
    /\ \/ Abort(<<output_file, opens>>)
       \/ /\ output_file' = <<EmptyFile>>
          /\ opens' = opens + 1
          /\ main_pc' = NextStatement(main_pc)
    /\ UNCHANGED <<argv, arguments, packages_directory, main_licenses,
                   main_file_content, main_packages, main_contributors_list,
                   main_contributors, writes>>
    /\ UNCHANGED <<contribVars, pkgVars>>

\* file.write(acknowledgements.to_json(indent=2)): or the write raises and
\* the file stays as opened.
WriteOutputFile ==
    /\ main_pc = "write"
    /\ \/ Abort(<<output_file, writes>>)
       \/ /\ output_file' = <<to_json(main_packages[1], main_contributors[1])>>
          /\ writes' = writes + 1
          /\ main_pc' = NextStatement(main_pc)
    /\ UNCHANGED <<argv, arguments, packages_directory, main_licenses,
                   main_file_content, main_packages, main_contributors_list,
                   main_contributors, opens>>
    /\ UNCHANGED <<contribVars, pkgVars>>

\* print("done writing acknowledgements")
PrintDone ==
    /\ main_pc = "print"
    /\ main_pc' = NextStatement(main_pc)
    /\ UNCHANGED <<argv, arguments, packages_directory, main_licenses,
                   main_file_content, main_packages, main_contributors_list,
                   main_contributors, output_file, opens, writes>>
    /\ UNCHANGED <<contribVars, pkgVars>>

InitMain == IdleContributors /\ IdlePackages /\ InitMainLocals

NextMain ==
    \/ CallParseArguments
    \/ CallGetPackagesDirectory
    \/ CallGetPackagesLicenses
    \/ CallDecodePackageFile
    \/ CallPackageFileContentToAcknowledgments
    \/ CallGitLog
    \/ CallFormatContributors
    \/ OpenOutputFile
    \/ WriteOutputFile
    \/ PrintDone

SpecMain == InitMain /\ [][NextMain]_vars

----------------------------------------------------------------------------
(* Properties of main *)

\* Argument parsing, the directory lookup, the license scan, the lock-file
\* decoding, the package list and the contributor list have all completed.
AllBuilt ==
    /\ arguments # <<>>
    /\ packages_directory # <<>>
    /\ main_licenses # <<>>
    /\ main_file_content # <<>>
    /\ main_packages # <<>>
    /\ main_contributors # <<>>

\* C8: the output file is opened and written only after all of these steps
\* completed, once each in a run that finishes; a run in which one of them
\* failed ends with the file neither opened nor written.
C8_WrittenOnceAfterAllBuilt ==
    /\ [][(opens' # opens \/ writes' # writes \/ output_file' # output_file)
              => (AllBuilt /\ opens' <= 1 /\ writes' <= 1)]_vars
    /\ [](main_pc = "done" => (opens = 1 /\ writes = 1))
    /\ []((main_pc = "aborted" /\ ~AllBuilt) => (opens = 0 /\ writes = 0))

\* C8 witness: a finished run that replaced an existing file by a document
\* with a package and contributors.
C8_Witness ==
    /\ main_pc = "done"
    /\ opens = 1 /\ writes = 1
    /\ output_file # <<>>
    /\ output_file[1].kind = "json"
    /\ Len(output_file[1].packages) = 1
    /\ Len(output_file[1].contributors) = 2

====
